---- MODULE Spec2Model ----
(***************************************************************************)
(* The request handlers of backend/api/views.py (NoteListCreate,           *)
(* NoteDelete, CreateUserView, CurrentUserView) over a note store and a    *)
(* user store, with two request workers whose database steps interleave.   *)
(*                                                                         *)
(* Strings that only carry a length constraint (title, content) are        *)
(* modelled by their length.  An exception is a string naming its class.   *)
(***************************************************************************)
EXTENDS Integers, Sequences, FiniteSets, TLC

\* ---- bounds -------------------------------------------------------------
\* The number of notes ever created (ids are never reused).
MaxNotes == 2

\* ---- program constants --------------------------------------------------
MaxTitleLength == 100
HTTP_200_OK == 200
HTTP_201_CREATED == 201
HTTP_400_BAD_REQUEST == 400
HTTP_401_UNAUTHORIZED == 401
HTTP_403_FORBIDDEN == 403
HTTP_404_NOT_FOUND == 404
HTTP_500_INTERNAL_SERVER_ERROR == 500

\* ---- inputs -------------------------------------------------------------
Workers == {"w1", "w2"}
Titles == {0, 1, MaxTitleLength + 1}
Contents == {0, 1}
RegNames == {"", "alice", "bob"}
\* MaxNotes + 1 is an id no note ever has.
NoteIds == 1..(MaxNotes + 1)

VARIABLES
    users,       \* the user table: users[i] is the row with id i
    notes,       \* the note table: a set of rows
    nextId,      \* the note table's auto-increment counter
    now,         \* the server clock, as last read
    req,         \* req[w]: the request worker w is in the middle of
    resp,        \* the response just produced, until it is sent
    lastCreate,  \* history: the note and principal of a create that nothing has followed yet
    okDeletes    \* history: the note ids for which a delete has reported success

vars == <<users, notes, nextId, now, req, resp, lastCreate, okDeletes>>

\* ---- records ------------------------------------------------------------
Idle ==
    [pc |-> "idle", op |-> "none", user |-> 0, id |-> 0, username |-> "",
     note_info |-> <<>>, alone |-> FALSE, before |-> {}, removed |-> FALSE]

\* Another request has taken a step since r began: r no longer runs alone, and
\* the store as it was when r began is no longer kept.
Disturbed(r) == [r EXCEPT !.alone = FALSE, !.before = {}]

NoResp ==
    [op |-> "none", user |-> 0, id |-> 0, title |-> 0, content |-> 0,
     username |-> "", status |-> 0, errors |-> {}, data |-> <<>>,
     entered |-> FALSE, lookups |-> 0, before |-> {}, alone |-> FALSE,
     logFailed |-> FALSE, removed |-> FALSE, justCreated |-> <<>>]

AnonymousUser ==
    [id |-> 0, username |-> "", is_staff |-> FALSE, is_superuser |-> FALSE]

\* request.user for a credential: the row of the user it names, or the
\* anonymous user when the request carries no valid credential (cred = 0).
request_user(cred) ==
    IF cred \in 1..Len(users)
    THEN [id |-> cred, username |-> users[cred].username,
          is_staff |-> users[cred].is_staff,
          is_superuser |-> users[cred].is_superuser]
    ELSE AnonymousUser

\* ---- the audit logger ---------------------------------------------------
\* The failure of the sink propagates to the caller.
log_call_propagates(fails) == IF fails THEN "raised" ELSE "ok"

\* A logging call whose sink fails: the utility swallows the failure.
log_call(fails) == "ok"

\* ---- permissions --------------------------------------------------------
NoteListCreate_permission_classes == "IsAuthenticated"
NoteDelete_permission_classes_open == "AllowAny"
NoteDelete_permission_classes == "IsAuthenticated"
CreateUserView_permission_classes == "AllowAny"
CurrentUserView_permission_classes == "IsAuthenticated"

\* APIView.initial: the permission check that runs before the handler.
check_permissions(perm, p) == perm = "AllowAny" \/ p.id # 0

\* The response to a request that fails the permission check.
permission_denied(op, p) ==
    [NoResp EXCEPT !.op = op, !.user = p.id, !.status = HTTP_401_UNAUTHORIZED,
                   !.before = notes]

\* ---- serializers --------------------------------------------------------
NoteSerializer_errors(title, content) ==
    (IF title = 0 \/ title > MaxTitleLength THEN {"title"} ELSE {})
    \cup (IF content = 0 THEN {"content"} ELSE {})

NoteSerializer_data(n) ==
    [id |-> n.id, title |-> n.title, content |-> n.content,
     author_username |-> users[n.author].username, author_id |-> n.author,
     created_at |-> n.created_at]

\* ---- ListNotes ----------------------------------------------------------
Perms(S) ==
    {s \in [1..Cardinality(S) -> S] : \A i, j \in DOMAIN s : i # j => s[i] # s[j]}

\* Insert row n into s, which is ordered by created_at descending, after
\* the rows that are not older than n.
RECURSIVE InsertDesc(_, _)
InsertDesc(n, s) ==
    IF s = <<>> THEN <<n>>
    ELSE IF Head(s).created_at >= n.created_at
         THEN <<Head(s)>> \o InsertDesc(n, Tail(s))
         ELSE <<n>> \o s

\* order_by('-created_at') over the rows in the order the table yields them.
RECURSIVE order_by_created_at_desc(_)
order_by_created_at_desc(scan) ==
    IF scan = <<>> THEN <<>>
    ELSE InsertDesc(scan[Len(scan)],
                    order_by_created_at_desc(SubSeq(scan, 1, Len(scan) - 1)))

\* The queryset without its order_by.
NoteListCreate_get_queryset_unordered(scan) == scan

NoteListCreate_get_queryset(scan) == order_by_created_at_desc(scan)

NoteListCreate_list(p, scan, logf) ==
    IF log_call(logf) = "raised"
    THEN [status |-> HTTP_500_INTERNAL_SERVER_ERROR, data |-> <<>>]
    ELSE LET qs == NoteListCreate_get_queryset(scan)
         IN [status |-> HTTP_200_OK,
             data |-> [i \in 1..Len(qs) |-> NoteSerializer_data(qs[i])]]

ListNotes(w, cred, scan, logf) ==
    /\ resp.op = "none"
    /\ req[w].pc = "idle"
    /\ LET p == request_user(cred)
       IN IF ~check_permissions(NoteListCreate_permission_classes, p)
          THEN resp' = permission_denied("ListNotes", p)
          ELSE LET r == NoteListCreate_list(p, scan, logf)
               IN resp' = [NoResp EXCEPT !.op = "ListNotes", !.user = p.id,
                               !.status = r.status, !.data = r.data,
                               !.entered = TRUE, !.before = notes,
                               !.logFailed = logf,
                               !.justCreated = lastCreate]
    /\ lastCreate' = <<>>
    /\ req' = [v \in Workers |-> Disturbed(req[v])]
    /\ UNCHANGED <<users, notes, nextId, now, okDeletes>>

\* ---- CreateNote ---------------------------------------------------------
\* The row saved with the first user as its author, whoever asks.
NoteSerializer_save_first_user(p, title, content, id, t) ==
    [id |-> id, title |-> title, content |-> content, author |-> 1,
     created_at |-> t]

\* serializer.save(author=request.user): the row the insert adds.
NoteSerializer_save(p, title, content, id, t) ==
    [id |-> id, title |-> title, content |-> content, author |-> p.id,
     created_at |-> t]

\* create without the is_valid() branch: the note is saved as it came.
NoteListCreate_create_unchecked(p, title, content, id, t, logf) ==
    LET note == [id |-> id, title |-> title, content |-> content, author |-> p.id,
                 created_at |-> t]
    IN [status |-> HTTP_201_CREATED, errors |-> {}, saved |-> {note},
        data |-> <<>>]

\* NoteListCreate.create: the status, the validation errors, the rows it
\* inserts and the serialized note.
NoteListCreate_create(p, title, content, id, t, logf) ==
    LET errors == NoteSerializer_errors(title, content)
        note == NoteSerializer_save(p, title, content, id, t)
        failure == [status |-> HTTP_500_INTERNAL_SERVER_ERROR, errors |-> {},
                    saved |-> {}, data |-> <<>>]
    IN IF errors = {}
       THEN IF p.id = 0
            THEN failure    \* the author of a note must be a user row
            ELSE IF log_call(logf) = "raised"
                 THEN [failure EXCEPT !.saved = {note}]
                 ELSE [status |-> HTTP_201_CREATED, errors |-> {},
                       saved |-> {note}, data |-> <<NoteSerializer_data(note)>>]
       ELSE IF log_call(logf) = "raised"
            THEN failure
            ELSE [status |-> HTTP_400_BAD_REQUEST, errors |-> errors,
                  saved |-> {}, data |-> <<>>]

CreateNote(w, cred, title, content, t, logf) ==
    /\ resp.op = "none"
    /\ req[w].pc = "idle"
    /\ t \in {now, now + 1}
    /\ LET p == request_user(cred)
       IN IF ~check_permissions(NoteListCreate_permission_classes, p)
          THEN /\ resp' = permission_denied("CreateNote", p)
               /\ lastCreate' = <<>>
               /\ UNCHANGED <<notes, nextId, now>>
          ELSE LET r == NoteListCreate_create(p, title, content, nextId, t, logf)
               IN /\ r.saved # {} => nextId <= MaxNotes
                  /\ notes' = notes \cup r.saved
                  /\ nextId' = IF r.saved # {} THEN nextId + 1 ELSE nextId
                  /\ now' = IF r.saved # {} THEN t ELSE now
                  /\ lastCreate' = IF r.status = HTTP_201_CREATED
                                   THEN <<[id |-> nextId, by |-> cred]>> ELSE <<>>
                  /\ resp' = [NoResp EXCEPT !.op = "CreateNote", !.user = p.id,
                                  !.title = title, !.content = content,
                                  !.status = r.status, !.errors = r.errors,
                                  !.data = r.data,
                                  !.id = IF r.saved # {} THEN nextId ELSE 0,
                                  !.entered = TRUE, !.before = notes,
                                  !.logFailed = logf]
    /\ req' = [v \in Workers |-> Disturbed(req[v])]
    /\ UNCHANGED <<users, okDeletes>>

\* ---- GetCurrentUser -----------------------------------------------------
\* get with is_admin taken from is_superuser alone.
CurrentUserView_get_superuser_only(p, logf) ==
    [status |-> HTTP_200_OK,
     data |-> <<[id |-> p.id, username |-> p.username,
                 is_admin |-> p.is_superuser,
                 is_staff |-> p.is_staff,
                 is_superuser |-> p.is_superuser]>>]

CurrentUserView_get(p, logf) ==
    IF log_call(logf) = "raised"
    THEN [status |-> HTTP_500_INTERNAL_SERVER_ERROR, data |-> <<>>]
    ELSE [status |-> HTTP_200_OK,
          data |-> <<[id |-> p.id, username |-> p.username,
                      is_admin |-> p.is_staff \/ p.is_superuser,
                      is_staff |-> p.is_staff,
                      is_superuser |-> p.is_superuser]>>]

GetCurrentUser(w, cred, logf) ==
    /\ resp.op = "none"
    /\ req[w].pc = "idle"
    /\ LET p == request_user(cred)
       IN IF ~check_permissions(CurrentUserView_permission_classes, p)
          THEN resp' = permission_denied("GetCurrentUser", p)
          ELSE LET r == CurrentUserView_get(p, logf)
               IN resp' = [NoResp EXCEPT !.op = "GetCurrentUser", !.user = p.id,
                               !.status = r.status, !.data = r.data,
                               !.entered = TRUE, !.before = notes,
                               !.logFailed = logf]
    /\ lastCreate' = <<>>
    /\ req' = [v \in Workers |-> Disturbed(req[v])]
    /\ UNCHANGED <<users, notes, nextId, now, okDeletes>>

\* ---- DeleteNote ---------------------------------------------------------
\* NoteDelete.get_queryset: every row for an administrator, none otherwise.
NoteDelete_get_queryset(p, rows) ==
    IF p.is_staff \/ p.is_superuser THEN rows ELSE {}

\* GenericAPIView.get_object: the row of the queryset with the id, or the
\* Http404 that get_object_or_404 raises.
get_object(qs, id) ==
    IF \E n \in qs : n.id = id
    THEN [exc |-> "none", obj |-> {n \in qs : n.id = id}]
    ELSE [exc |-> "Http404", obj |-> {}]

\* destroy without its authorization check.
NoteDelete_is_authorized_anyone(p) == TRUE

\* The check that opens NoteDelete.destroy.
NoteDelete_is_authorized(p) == p.is_staff \/ p.is_superuser

\* The first part of NoteDelete.destroy, up to the note_info snapshot:
\* status 0 means the handler goes on to the inherited destroy.
NoteDelete_destroy(p, id, rows, logf) ==
    LET failure == [status |-> HTTP_500_INTERNAL_SERVER_ERROR, lookups |-> 0,
                    note_info |-> <<>>]
    IN IF ~NoteDelete_is_authorized(p)
       THEN IF log_call(logf) = "raised"
            THEN failure
            ELSE [failure EXCEPT !.status = HTTP_403_FORBIDDEN]
       ELSE IF log_call(logf) = "raised"
            THEN failure
            ELSE LET o == get_object(NoteDelete_get_queryset(p, rows), id)
                 IN IF o.exc = "DoesNotExist"
                    THEN [failure EXCEPT !.status = HTTP_404_NOT_FOUND, !.lookups = 1]
                    ELSE IF o.exc # "none"
                         THEN [failure EXCEPT !.lookups = 1]
                         ELSE LET note == CHOOSE n \in o.obj : TRUE
                              IN [status |-> 0, lookups |-> 1,
                                  note_info |-> <<[id |-> note.id, title |-> note.title,
                                                   author |-> users[note.author].username]>>]

DeleteResp(r, status, logf) ==
    [NoResp EXCEPT !.op = "DeleteNote", !.user = r.user, !.id = r.id,
                   !.status = status, !.entered = TRUE, !.before = r.before,
                   !.alone = r.alone, !.logFailed = logf,
                   !.removed = r.removed]

\* Authentication, the authorization check and the first lookup.
DeleteNote(w, cred, id, logf) ==
    /\ resp.op = "none"
    /\ req[w].pc = "idle"
    /\ LET p == request_user(cred)
           alone == \A v \in Workers \ {w} : req[v].pc = "idle"
       IN IF ~check_permissions(NoteDelete_permission_classes, p)
          THEN /\ resp' = [permission_denied("DeleteNote", p) EXCEPT !.id = id]
               /\ req' = [v \in Workers |-> Disturbed(req[v])]
          ELSE LET r == NoteDelete_destroy(p, id, notes, logf)
                   mine == [Idle EXCEPT !.op = "DeleteNote", !.user = p.id, !.id = id,
                                        !.before = IF alone THEN notes ELSE {},
                                        !.alone = alone]
               IN IF r.status # 0
                  THEN /\ resp' = [DeleteResp(mine, r.status, logf) EXCEPT
                                       !.lookups = r.lookups, !.before = notes]
                       /\ req' = [v \in Workers |-> Disturbed(req[v])]
                  ELSE /\ resp' = resp
                       /\ req' = [v \in Workers |->
                                    IF v = w
                                    THEN [mine EXCEPT !.pc = "destroy",
                                                      !.note_info = r.note_info]
                                    ELSE Disturbed(req[v])]
    /\ lastCreate' = <<>>
    /\ UNCHANGED <<users, notes, nextId, now, okDeletes>>

\* super().destroy: the lookup of DestroyModelMixin.destroy.
DestroyModelMixin_get_object(w, logf) ==
    /\ resp.op = "none"
    /\ req[w].pc = "destroy"
    /\ LET p == request_user(req[w].user)
           mine == req[w]
           o == get_object(NoteDelete_get_queryset(p, notes), req[w].id)
       IN IF log_call(logf) = "raised" \/ o.exc # "none"
          THEN /\ resp' = [DeleteResp(mine, HTTP_500_INTERNAL_SERVER_ERROR, logf)
                              EXCEPT !.lookups = 2]
               /\ req' = [v \in Workers |->
                            IF v = w THEN Idle ELSE Disturbed(req[v])]
          ELSE /\ resp' = resp
               /\ req' = [v \in Workers |->
                            IF v = w THEN [mine EXCEPT !.pc = "delete"]
                            ELSE Disturbed(req[v])]
    /\ lastCreate' = <<>>
    /\ UNCHANGED <<users, notes, nextId, now, okDeletes>>

\* A DELETE whose WHERE clause reads id <= pk.
Model_delete_up_to(rows, id) == {n \in rows : n.id > id}

\* A DELETE that lost its WHERE clause.
Model_delete_all(rows, id) == {}

\* instance.delete(): DELETE ... WHERE id = pk; a row already gone is no error.
Model_delete(rows, id) == {n \in rows : n.id # id}

\* super().destroy: perform_destroy.
DestroyModelMixin_perform_destroy(w) ==
    /\ resp.op = "none"
    /\ req[w].pc = "delete"
    /\ notes' = Model_delete(notes, req[w].id)
    /\ req' = [v \in Workers |->
                 IF v = w
                 THEN [req[w] EXCEPT !.pc = "respond",
                                     !.removed = \E n \in notes : n.id = req[w].id]
                 ELSE Disturbed(req[v])]
    /\ lastCreate' = <<>>
    /\ UNCHANGED <<users, nextId, now, resp, okDeletes>>

\* The status NoteDelete.destroy returns after the inherited destroy.
NoteDelete_destroy_status(logf) ==
    IF log_call(logf) = "raised"
    THEN HTTP_500_INTERNAL_SERVER_ERROR ELSE HTTP_200_OK

\* The end of NoteDelete.destroy: the log entry and the success response.
NoteDelete_respond(w, logf) ==
    /\ resp.op = "none"
    /\ req[w].pc = "respond"
    /\ resp' = [DeleteResp(req[w], NoteDelete_destroy_status(logf), logf) EXCEPT
                    !.lookups = 2, !.data = req[w].note_info]
    /\ req' = [v \in Workers |->
                 IF v = w THEN Idle ELSE Disturbed(req[v])]
    /\ lastCreate' = <<>>
    /\ UNCHANGED <<users, notes, nextId, now, okDeletes>>

\* ---- Register -----------------------------------------------------------
\* UserSerializer.is_valid: the username is required and not yet taken.
UserSerializer_errors(username, rows) ==
    IF username = "" \/ \E i \in DOMAIN rows : rows[i].username = username
    THEN {"username"} ELSE {}

\* CreateUserView.create, up to serializer.is_valid().
Register(w, username, logf) ==
    /\ resp.op = "none"
    /\ req[w].pc = "idle"
    /\ check_permissions(CreateUserView_permission_classes, AnonymousUser)
    /\ LET errors == UserSerializer_errors(username, users)
           alone == \A v \in Workers \ {w} : req[v].pc = "idle"
       IN IF errors # {}
          THEN /\ resp' = [NoResp EXCEPT !.op = "Register", !.username = username,
                               !.status = IF log_call(logf) = "raised"
                                          THEN HTTP_500_INTERNAL_SERVER_ERROR
                                          ELSE HTTP_400_BAD_REQUEST,
                               !.errors = errors, !.entered = TRUE,
                               !.before = notes, !.logFailed = logf]
               /\ req' = [v \in Workers |-> Disturbed(req[v])]
          ELSE /\ resp' = resp
               /\ req' = [v \in Workers |->
                            IF v = w
                            THEN [Idle EXCEPT !.pc = "save", !.op = "Register",
                                              !.username = username, !.alone = alone,
                                              !.before = IF alone THEN notes ELSE {}]
                            ELSE Disturbed(req[v])]
    /\ lastCreate' = <<>>
    /\ UNCHANGED <<users, notes, nextId, now, okDeletes>>

\* The insert of serializer.save(): the unique index on username makes the
\* insert of a taken username raise IntegrityError.
User_insert(rows, username) ==
    IF \E i \in DOMAIN rows : rows[i].username = username
    THEN [exc |-> "IntegrityError", rows |-> rows]
    ELSE [exc |-> "none",
          rows |-> Append(rows, [username |-> username, is_staff |-> FALSE,
                                 is_superuser |-> FALSE])]

\* The status CreateUserView.create returns after serializer.save().
CreateUserView_create_status(exc, logf) ==
    IF exc # "none" \/ log_call(logf) = "raised"
    THEN HTTP_500_INTERNAL_SERVER_ERROR ELSE HTTP_201_CREATED

\* CreateUserView.create, from serializer.save() on.
Register_save(w, logf) ==
    /\ resp.op = "none"
    /\ req[w].pc = "save"
    /\ LET r == User_insert(users, req[w].username)
       IN /\ users' = r.rows
          /\ resp' = [NoResp EXCEPT !.op = "Register", !.username = req[w].username,
                          !.status = CreateUserView_create_status(r.exc, logf),
                          !.id = IF r.exc = "none" THEN Len(r.rows) ELSE 0,
                          !.entered = TRUE, !.before = req[w].before,
                          !.alone = req[w].alone, !.logFailed = logf]
    /\ req' = [v \in Workers |->
                 IF v = w THEN Idle ELSE Disturbed(req[v])]
    /\ lastCreate' = <<>>
    /\ UNCHANGED <<notes, nextId, now, okDeletes>>

\* ---- sending the response ----------------------------------------------
Deliver ==
    /\ resp.op # "none"
    /\ resp' = NoResp
    /\ okDeletes' = IF resp.op = "DeleteNote" /\ resp.status = HTTP_200_OK
                    THEN okDeletes \cup {resp.id} ELSE okDeletes
    /\ UNCHANGED <<users, notes, nextId, now, req, lastCreate>>

\* ---- the system ---------------------------------------------------------
\* The (is_staff, is_superuser) flags an administrator's row can have.
AdminFlags == {<<TRUE, FALSE>>, <<FALSE, TRUE>>, <<TRUE, TRUE>>}

Init ==
    /\ users \in {<<[username |-> "alice", is_staff |-> FALSE, is_superuser |-> FALSE],
                    [username |-> "admin", is_staff |-> f[1], is_superuser |-> f[2]]>> :
                  f \in AdminFlags}
    /\ notes = {}
    /\ nextId = 1
    /\ now = 0
    /\ req = [w \in Workers |-> Idle]
    /\ resp = NoResp
    /\ lastCreate = <<>>
    /\ okDeletes = {}

\* The steps of the workers W, with the logging sink failing as L allows and
\* note payloads drawn from titles T and contents C.
Step(W, L, T, C) ==
    \/ \E w \in W, cred \in 0..Len(users), scan \in Perms(notes), logf \in L :
          ListNotes(w, cred, scan, logf)
    \/ \E w \in W, cred \in 0..Len(users), title \in T, content \in C,
          t \in 0..(MaxNotes + 1), logf \in L :
          CreateNote(w, cred, title, content, t, logf)
    \/ \E w \in W, cred \in 0..Len(users), logf \in L :
          GetCurrentUser(w, cred, logf)
    \/ \E w \in W, cred \in 0..Len(users), id \in NoteIds, logf \in L :
          DeleteNote(w, cred, id, logf)
    \/ \E w \in W, logf \in L : DestroyModelMixin_get_object(w, logf)
    \/ \E w \in W : DestroyModelMixin_perform_destroy(w)
    \/ \E w \in W, logf \in L : NoteDelete_respond(w, logf)
    \/ \E w \in W, username \in RegNames, logf \in L :
          Register(w, username, logf)
    \/ \E w \in W, logf \in L : Register_save(w, logf)
    \/ Deliver

\* Two workers whose steps interleave; the logging sink is healthy and every
\* note payload is valid.
Next == Step(Workers, {FALSE}, {1}, {1})

Spec == Init /\ [][Next]_vars

\* One worker: requests are served one at a time, with every payload and
\* with a logging sink that may fail at any call.
SeqNext == Step({"w1"}, BOOLEAN, Titles, Contents)

SeqSpec == Init /\ [][SeqNext]_vars

\* ---- properties ---------------------------------------------------------
Protected == {"ListNotes", "CreateNote", "DeleteNote", "GetCurrentUser"}

Elevated(u) ==
    u \in 1..Len(users) /\ (users[u].is_staff \/ users[u].is_superuser)

Exists(id, rows) == \E n \in rows : n.id = id

\* C1: a DeleteNote by an authenticated principal with is_staff = false and
\* is_superuser = false, for any note id (of a note or of none), answers 403
\* without looking any note up, and the note store is as it was.
C1_NonAdminDeleteForbidden ==
    (resp.op = "DeleteNote" /\ resp.user # 0 /\ ~Elevated(resp.user)) =>
        /\ resp.status = HTTP_403_FORBIDDEN
        /\ resp.lookups = 0
        /\ notes = resp.before
        /\ Cardinality(notes) = Cardinality(resp.before)

C1_Witness ==
    /\ resp.op = "DeleteNote" /\ resp.user # 0 /\ ~Elevated(resp.user)
    /\ resp.status = HTTP_403_FORBIDDEN
    /\ notes # {} /\ ~Exists(resp.id, notes)

C1_WitnessExisting ==
    /\ resp.op = "DeleteNote" /\ resp.user # 0 /\ ~Elevated(resp.user)
    /\ resp.status = HTTP_403_FORBIDDEN
    /\ Exists(resp.id, notes)

\* C2: a DeleteNote by an elevated principal for an id that no note in the
\* store has answers 404, and the store is as it was.
C2_ElevatedDeleteMissingIs404 ==
    (resp.op = "DeleteNote" /\ Elevated(resp.user) /\ resp.lookups = 1
        /\ ~Exists(resp.id, resp.before)) =>
        /\ resp.status = HTTP_404_NOT_FOUND
        /\ notes = resp.before

\* The store half of C2 alone: the missing-id delete leaves the store as it was.
C2_StoreUnchanged ==
    (resp.op = "DeleteNote" /\ Elevated(resp.user) /\ resp.lookups = 1
        /\ ~Exists(resp.id, resp.before)) =>
        notes = resp.before

C4_ConcurrentDeleteOneWinner ==
    (resp.op = "DeleteNote" /\ Elevated(resp.user) /\ resp.lookups = 2) =>
        /\ resp.status \in {HTTP_200_OK, HTTP_404_NOT_FOUND}
        /\ resp.status = HTTP_200_OK => resp.id \notin okDeletes

\* The halves of C4: no racing delete ends in an internal error; no note's
\* deletion is reported as a success twice.
C4_NoInternalError ==
    (resp.op = "DeleteNote" /\ Elevated(resp.user) /\ resp.lookups = 2) =>
        resp.status # HTTP_500_INTERNAL_SERVER_ERROR

C4_AtMostOneSuccess ==
    (resp.op = "DeleteNote" /\ resp.status = HTTP_200_OK) =>
        resp.id \notin okDeletes

\* C5: a request to ListNotes, CreateNote, DeleteNote or GetCurrentUser that
\* carries no valid credential answers 401, its handler body does not run,
\* and the note store is as it was.
C5_Unauthenticated401 ==
    (resp.op \in Protected /\ resp.user = 0) =>
        /\ resp.status = HTTP_401_UNAUTHORIZED
        /\ ~resp.entered
        /\ resp.lookups = 0
        /\ notes = resp.before

C5_Witness ==
    /\ resp.op = "DeleteNote" /\ resp.user = 0
    /\ resp.status = HTTP_401_UNAUTHORIZED
    /\ Exists(resp.id, notes)

\* C6: a CreateNote by an authenticated principal with an empty title answers
\* 400 with a title entry among its errors, and adds no note.
C6_EmptyTitleRejected ==
    (resp.op = "CreateNote" /\ resp.user # 0 /\ resp.title = 0) =>
        /\ resp.status = HTTP_400_BAD_REQUEST
        /\ "title" \in resp.errors
        /\ notes = resp.before

C6_Witness ==
    /\ resp.op = "CreateNote" /\ resp.user # 0 /\ resp.title = 0
    /\ resp.content # 0
    /\ resp.status = HTTP_400_BAD_REQUEST
    /\ notes # {}

\* C7: the ListNotes of any authenticated principal that directly follows a
\* CreateNote answered 201 answers 200 with exactly one item for the new
\* note, whose author_id and author_username are the id and the username of
\* the principal that made the create request.
C7_CreateThenList ==
    (resp.op = "ListNotes" /\ resp.user # 0 /\ resp.justCreated # <<>>) =>
        LET c == resp.justCreated[1]
            items == {i \in DOMAIN resp.data : resp.data[i].id = c.id}
        IN /\ resp.status = HTTP_200_OK
           /\ Cardinality(items) = 1
           /\ \A i \in items :
                 /\ resp.data[i].author_id = c.by
                 /\ resp.data[i].author_username = users[c.by].username

C7_Witness ==
    /\ resp.op = "ListNotes" /\ resp.user # 0 /\ resp.justCreated # <<>>
    /\ resp.status = HTTP_200_OK
    /\ resp.justCreated[1].by = 2 /\ resp.user = 1
    /\ Len(resp.data) = 2

\* C8: the user store never holds two principals with one username, and a
\* registration that creates no principal (its username being taken, or
\* empty) answers 400.
C8_RegistrationUnique ==
    /\ \A i, j \in DOMAIN users : users[i].username = users[j].username => i = j
    /\ (resp.op = "Register" /\ resp.id = 0) => resp.status = HTTP_400_BAD_REQUEST

\* The halves of C8.
C8_OnePrincipalPerUsername ==
    \A i, j \in DOMAIN users : users[i].username = users[j].username => i = j

C8_SequentialDuplicateIs400 ==
    (resp.op = "Register" /\ resp.id = 0 /\ resp.alone) =>
        resp.status = HTTP_400_BAD_REQUEST

C9_WitnessCreate ==
    /\ resp.op = "CreateNote" /\ resp.logFailed
    /\ resp.status = HTTP_201_CREATED

\* C10: a ListNotes by an authenticated principal answers 200, in any state of
\* the store, with one item per note, and no item is older than the item
\* before it: created_at never increases along the list.
C10_ListNewestFirst ==
    (resp.op = "ListNotes" /\ resp.user # 0) =>
        /\ resp.status = HTTP_200_OK
        /\ Len(resp.data) = Cardinality(notes)
        /\ \A i \in 1..(Len(resp.data) - 1) :
              resp.data[i].created_at >= resp.data[i + 1].created_at

C10_Witness ==
    /\ resp.op = "ListNotes" /\ resp.user # 0
    /\ Len(resp.data) = 2
    /\ resp.data[1].created_at > resp.data[2].created_at
    /\ resp.data[1].id > resp.data[2].id

C10_WitnessTie ==
    /\ resp.op = "ListNotes" /\ resp.user # 0
    /\ Len(resp.data) = 2
    /\ resp.data[1].created_at = resp.data[2].created_at
    /\ resp.data[1].id < resp.data[2].id

\* C11: a GetCurrentUser by an authenticated principal answers 200 with the
\* principal's id and username, with is_staff and is_superuser as in the
\* principal's row, and with is_admin true exactly when one of the two is
\* (so true for is_staff alone), for each of the four pairs of flags.
C11_CurrentUserFlags ==
    (resp.op = "GetCurrentUser" /\ resp.user # 0) =>
        /\ resp.status = HTTP_200_OK
        /\ Len(resp.data) = 1
        /\ resp.data[1].id = resp.user
        /\ resp.data[1].username = users[resp.user].username
        /\ resp.data[1].is_staff = users[resp.user].is_staff
        /\ resp.data[1].is_superuser = users[resp.user].is_superuser
        /\ resp.data[1].is_admin =
              (users[resp.user].is_staff \/ users[resp.user].is_superuser)

C11_Witness ==
    /\ resp.op = "GetCurrentUser" /\ resp.user # 0
    /\ users[resp.user].is_staff /\ ~users[resp.user].is_superuser
    /\ resp.status = HTTP_200_OK
    /\ resp.data[1].is_admin

\* The other three pairs of flags are reached too.
C11_WitnessRegular ==
    /\ resp.op = "GetCurrentUser" /\ resp.user # 0
    /\ ~users[resp.user].is_staff /\ ~users[resp.user].is_superuser
    /\ ~resp.data[1].is_admin

C11_WitnessSuperuser ==
    /\ resp.op = "GetCurrentUser" /\ resp.user # 0
    /\ ~users[resp.user].is_staff /\ users[resp.user].is_superuser
    /\ resp.data[1].is_admin

C11_WitnessBoth ==
    /\ resp.op = "GetCurrentUser" /\ resp.user # 0
    /\ users[resp.user].is_staff /\ users[resp.user].is_superuser
    /\ resp.data[1].is_admin

\* A step that takes note n out of the store is the delete step of a
\* DeleteNote request for n's id made by an elevated principal.
RemovedByElevatedDelete(n) ==
    \E w \in Workers :
        /\ req[w].op = "DeleteNote" /\ req[w].pc = "delete"
        /\ req'[w].pc = "respond"
        /\ req[w].id = n.id
        /\ Elevated(req[w].user)

\* C12: in every step of every interleaving of the five kinds of request, a
\* note that leaves the store leaves it in the delete step of a DeleteNote
\* request made for it by a principal with is_staff or is_superuser, and a
\* note that stays keeps its author (and the rest of its row).
C12_OnlyElevatedDeleteRemoves ==
    [][/\ \A n \in notes : n \notin notes' => RemovedByElevatedDelete(n)
       /\ \A n \in notes, m \in notes' : m.id = n.id => m.author = n.author]_vars

\* A delete by an elevated principal has taken its note out of the store
\* while the other worker is in the middle of a request, and a note is left.
C12_Witness ==
    \E w \in Workers :
        /\ req[w].op = "DeleteNote" /\ req[w].pc = "respond" /\ req[w].removed
        /\ Elevated(req[w].user)
        /\ ~Exists(req[w].id, notes)
        /\ notes # {}
        /\ \E v \in Workers \ {w} : req[v].pc # "idle"
====
